---- MODULE Spec2Model ----
(***************************************************************************)
(* Model of the core of mccabe_analyzer.py: extract_methods (the line      *)
(* scanner that finds method signatures and captures their bodies by brace *)
(* depth) and calculate_mccabe_complexity (the decision-point scorer).     *)
(*                                                                         *)
(* Text is modelled character by character: a Python str is a sequence of  *)
(* one-character strings, so that str.strip, str.startswith, the `in`      *)
(* substring test and every regular expression of the source are computed  *)
(* on the characters.  Cursors i and j keep the source's 0-based values:   *)
(* lines[i + 1] is Python's lines[i].                                      *)
(***************************************************************************)
EXTENDS Integers, Sequences, FiniteSets

VARIABLES
    lines,                \* content.split('\n')
    i,                    \* outer cursor (0-based)
    j,                    \* inner cursor (0-based)
    pc,                   \* position in the function being run
    current_class,        \* enclosing type name carried across lines
    methods,              \* the list of records built so far
    method_name,          \* group(2) of the signature being captured
    start_line,           \* i + 1 of the signature being captured
    brace_count,          \* brace depth of the capture
    found_opening_brace,  \* whether the capture has seen a '{'
    method_body_lines,    \* the lines the capture has appended
    method_body,          \* argument of calculate_mccabe_complexity
    complexity            \* its return value

vars == <<lines, i, j, pc, current_class, methods, method_name, start_line,
          brace_count, found_opening_brace, method_body_lines, method_body,
          complexity>>

-----------------------------------------------------------------------------
(* Bounds of the model.                                                    *)

\* longest input of extract_methods, in lines
MaxLines == 4

\* longest body given to calculate_mccabe_complexity, in fragments
MaxFrags == 2

-----------------------------------------------------------------------------
(* Characters, substrings and runs.                                        *)

\* \s of the re module, and what str.strip() removes
Space == {" ", "\t", "\n", "\r"}

\* \w of the re module
WordChar ==
    {"a", "b", "c", "d", "e", "f", "g", "h", "i", "j", "k", "l", "m", "n", "o", "p", "q", "r", "s", "t", "u", "v", "w", "x", "y", "z",
     "A", "B", "C", "D", "E", "F", "G", "H", "I", "J", "K", "L", "M", "N", "O", "P", "Q", "R", "S", "T", "U", "V", "W", "X", "Y", "Z",
     "0", "1", "2", "3", "4", "5", "6", "7", "8", "9", "_"}

\* [\w<>\[\],\?] : the characters of the return type in the signature pattern
TypeChar == WordChar \cup {"<", ">", "[", "]", ",", "?"}

Min(S) == CHOOSE x \in S : \A y \in S : x <= y

Max(S) == CHOOSE x \in S : \A y \in S : x >= y

\* the substring w occurs in s at position p (1-based)
StartsAt(s, p, w) ==
    /\ p >= 1
    /\ p + Len(w) - 1 <= Len(s)
    /\ \A k \in 1..Len(w) : s[p + k - 1] = w[k]

\* Python's `w in s`
Contains(s, w) == \E p \in 1..Len(s) : StartsAt(s, p, w)

\* the first position at or after p whose character is not in C (Len(s)+1 if none)
FirstNot(s, p, C) ==
    LET stop == {q \in p..Len(s) : s[q] \notin C}
    IN  IF stop = {} THEN Len(s) + 1 ELSE Min(stop)

\* the last position at or before p whose character is not in C (0 if none)
LastNot(s, p, C) ==
    LET stop == {q \in 1..p : s[q] \notin C}
    IN  IF stop = {} THEN 0 ELSE Max(stop)

\* the first position at or after p whose character is c (0 if none)
FirstChar(s, p, c) ==
    LET hit == {q \in p..Len(s) : s[q] = c}
    IN  IF hit = {} THEN 0 ELSE Min(hit)

\* str.strip()
strip(s) ==
    LET a == FirstNot(s, 1, Space)
        b == LastNot(s, Len(s), Space)
    IN  IF a > Len(s) THEN <<>> ELSE SubSeq(s, a, b)

\* str.startswith(w)
startswith(s, w) == StartsAt(s, 1, w)

\* '\n'.join(ls)
RECURSIVE Join(_)
Join(ls) ==
    IF ls = <<>> THEN <<>>
    ELSE IF Len(ls) = 1 THEN ls[1]
    ELSE ls[1] \o <<"\n">> \o Join(Tail(ls))

-----------------------------------------------------------------------------
(* The literals of extract_methods.                                        *)

Unknown ==
    <<"U", "n", "k", "n", "o", "w", "n">>

KwClass ==
    <<"c", "l", "a", "s", "s">>

KwStruct ==
    <<"s", "t", "r", "u", "c", "t">>

KwRecord ==
    <<"r", "e", "c", "o", "r", "d">>

\* (?:class|struct|record) of class_pattern
TypeKeywords == {KwClass, KwStruct, KwRecord}

\* the modifier alternatives of the signature pattern
Modifiers ==
    { <<"p", "u", "b", "l", "i", "c">>,
      <<"p", "r", "i", "v", "a", "t", "e">>,
      <<"p", "r", "o", "t", "e", "c", "t", "e", "d">>,
      <<"i", "n", "t", "e", "r", "n", "a", "l">>,
      <<"s", "t", "a", "t", "i", "c">>,
      <<"v", "i", "r", "t", "u", "a", "l">>,
      <<"o", "v", "e", "r", "r", "i", "d", "e">>,
      <<"a", "b", "s", "t", "r", "a", "c", "t">>,
      <<"a", "s", "y", "n", "c">>,
      <<"s", "e", "a", "l", "e", "d">> }

\* ['class ', 'interface ', 'struct ', 'enum ', 'namespace ']
ExcludedKeywords ==
    { <<"c", "l", "a", "s", "s", " ">>,
      <<"i", "n", "t", "e", "r", "f", "a", "c", "e", " ">>,
      <<"s", "t", "r", "u", "c", "t", " ">>,
      <<"e", "n", "u", "m", " ">>,
      <<"n", "a", "m", "e", "s", "p", "a", "c", "e", " ">> }

\* ['get', 'set', 'add', 'remove', 'value']
Accessors ==
    { <<"g", "e", "t">>,
      <<"s", "e", "t">>,
      <<"a", "d", "d">>,
      <<"r", "e", "m", "o", "v", "e">>,
      <<"v", "a", "l", "u", "e">> }

-----------------------------------------------------------------------------
(* The tests extract_methods makes on one line.                            *)

\* stripped.startswith('//') or stripped.startswith('/*') or not stripped
IsSkipped(line) ==
    LET stripped == strip(line)
    IN  \/ startswith(stripped, <<"/", "/">>)
        \/ startswith(stripped, <<"/", "*">>)
        \/ stripped = <<>>

(* class_pattern: (?:modifier)?\s*(?:class|struct|record)\s+(\w+).         *)
(* The optional modifier and \s* only move the start of the match, so a    *)
(* match exists exactly where a keyword is followed by whitespace and then *)
(* a word character; no modifier contains a keyword, so the leftmost match *)
(* is the one of the leftmost such keyword.                                *)
\* the positions of a type keyword that is followed by \s+\w
ClassKeywordAt(line) ==
    {k \in 1..Len(line) :
        \E kw \in TypeKeywords :
            /\ StartsAt(line, k, kw)
            /\ k + Len(kw) <= Len(line)
            /\ line[k + Len(kw)] \in Space
            /\ FirstNot(line, k + Len(kw), Space) <= Len(line)
            /\ line[FirstNot(line, k + Len(kw), Space)] \in WordChar}

\* class_match is not None
class_match(line) == ClassKeywordAt(line) # {}

\* class_match.group(1): the whole word after the leftmost keyword
class_group1(line) ==
    LET k  == Min(ClassKeywordAt(line))
        kw == CHOOSE w \in TypeKeywords : StartsAt(line, k, w)
        a  == FirstNot(line, k + Len(kw), Space)
    IN  SubSeq(line, a, FirstNot(line, a, WordChar) - 1)

(* The signature pattern of line 76:                                       *)
(*   (?:modifier|\s)+\s*([\w<>\[\],\?]+)\s+(\w+)\s*\([^)]*\)\s*(?:\{|$)    *)
(* Nothing before the '(' of the pattern can match a '(', so a match is    *)
(* told by its '(' at position p: after it, the first ')' is followed by   *)
(* whitespace and then '{' or the end of the line; before it, whitespace,  *)
(* a whole word (group 2) with whitespace before it, and before that a run *)
(* of type characters that starts right after a whitespace character or    *)
(* right after a modifier.                                                 *)
\* \([^)]*\)\s*(?:\{|$) matches at p
SigSuffix(line, p) ==
    LET c == FirstChar(line, p + 1, ")")
        r == FirstNot(line, c + 1, Space)
    IN  /\ c # 0
        /\ (r > Len(line) \/ line[r] = "{")

\* the last character of group 2 for the '(' at p (0 if none)
NameEnd(line, p) == LastNot(line, p - 1, Space)

\* the first character of group 2 for the '(' at p
NameStart(line, p) == LastNot(line, NameEnd(line, p), WordChar) + 1

\* (?:modifier|\s)+\s*([\w<>\[\],\?]+)\s+(\w+)\s* matches up to p
SigPrefix(line, p) ==
    LET q == NameEnd(line, p)
        a == NameStart(line, p)
        e == LastNot(line, a - 1, Space)
    IN  /\ q >= 1
        /\ line[q] \in WordChar
        /\ a >= 2
        /\ line[a - 1] \in Space
        /\ e >= 1
        /\ \E t \in 2..e :
              /\ \A x \in t..e : line[x] \in TypeChar
              /\ \/ line[t - 1] \in Space
                 \/ \E m \in Modifiers : StartsAt(line, t - Len(m), m)

\* the '(' positions at which the signature pattern matches
SigParens(line) ==
    {p \in 1..Len(line) :
        line[p] = "(" /\ SigPrefix(line, p) /\ SigSuffix(line, p)}

\* method_match is not None (re.search)
method_match(line) == SigParens(line) # {}

\* method_match.group(2): the name of the leftmost match
method_group2(line) ==
    LET p == Min(SigParens(line))
    IN  SubSeq(line, NameStart(line, p), NameEnd(line, p))

\* not any(kw in line for kw in ['class ', 'interface ', ...])
NoExcludedKeyword(line) == \A kw \in ExcludedKeywords : ~Contains(line, kw)

\* the condition of line 78
IsSignature(line) == method_match(line) /\ NoExcludedKeyword(line)

-----------------------------------------------------------------------------
(* calculate_mccabe_complexity: the regular expressions.  A pattern is     *)
(* given by its match ends: for each position p of the text, the position  *)
(* just after the match that starts at p, or 0 when none starts there.     *)

KwIf ==
    <<"i", "f">>

KwElse ==
    <<"e", "l", "s", "e">>

KwFor ==
    <<"f", "o", "r">>

KwForeach ==
    <<"f", "o", "r", "e", "a", "c", "h">>

KwWhile ==
    <<"w", "h", "i", "l", "e">>

KwDo ==
    <<"d", "o">>

KwCase ==
    <<"c", "a", "s", "e">>

KwCatch ==
    <<"c", "a", "t", "c", "h">>

\* The text after a literal's opening quote qc, from q: [^q\\]*(?:\\.[^q\\]*)*q
\* The scan runs to the next quote or backslash r: a quote ends the literal,
\* a backslash takes the character after it along unless that is a line
\* break or the end of the text.
RECURSIVE LiteralScan(_, _, _)
LiteralScan(s, q, qc) ==
    LET stop == {x \in q..Len(s) : s[x] \in {qc, "\\"}}
        r    == IF stop = {} THEN 0 ELSE Min(stop)
    IN  IF r = 0 THEN 0
        ELSE IF s[r] = qc THEN r + 1
        ELSE IF r + 1 <= Len(s) /\ s[r + 1] # "\n"
             THEN LiteralScan(s, r + 2, qc)
             ELSE 0

\* "[^"\\]*(?:\\.[^"\\]*)*"   and   '[^'\\]*(?:\\.[^'\\]*)*'
LiteralEnd(s, p, qc) == IF s[p] = qc THEN LiteralScan(s, p + 1, qc) ELSE 0

\* //.*$ with re.MULTILINE: up to, not including, the end of the line
LineCommentEnd(s, p) ==
    IF StartsAt(s, p, <<"/", "/">>)
    THEN LET nl == FirstChar(s, p + 2, "\n")
         IN  IF nl = 0 THEN Len(s) + 1 ELSE nl
    ELSE 0

\* /\*.*?\*/ with re.DOTALL: up to the first */ after the opening
BlockCommentEnd(s, p) ==
    IF StartsAt(s, p, <<"/", "*">>)
    THEN LET close == {k \in (p + 2)..Len(s) : StartsAt(s, k, <<"*", "/">>)}
         IN  IF close = {} THEN 0 ELSE Min(close) + 2
    ELSE 0

\* \b before a keyword that starts at p
WordBoundary(s, p) == p = 1 \/ s[p - 1] \notin WordChar

\* \bkw\s*c
KeywordThen(s, p, kw, c) ==
    LET r == FirstNot(s, p + Len(kw), Space)
    IN  IF /\ WordBoundary(s, p)
           /\ StartsAt(s, p, kw)
           /\ r <= Len(s)
           /\ s[r] = c
        THEN r + 1
        ELSE 0

\* \belse\s+if\s*\(
ElseIfEnd(s, p) ==
    LET a == p + Len(KwElse)
        r == FirstNot(s, a, Space)
    IN  IF /\ WordBoundary(s, p)
           /\ StartsAt(s, p, KwElse)
           /\ r > a
           /\ StartsAt(s, r, KwIf)
           /\ FirstNot(s, r + Len(KwIf), Space) <= Len(s)
           /\ s[FirstNot(s, r + Len(KwIf), Space)] = "("
        THEN FirstNot(s, r + Len(KwIf), Space) + 1
        ELSE 0

\* \bcase\s+[^:]+: : whitespace, then at least one more character, then ':'
CaseEnd(s, p) ==
    LET a == p + Len(KwCase)
        c == FirstChar(s, a, ":")
    IN  IF /\ WordBoundary(s, p)
           /\ StartsAt(s, p, KwCase)
           /\ a <= Len(s)
           /\ s[a] \in Space
           /\ c # 0
           /\ c - a >= 2
        THEN c + 1
        ELSE 0

\* a two-character literal: && , \|\| , \?\?
PairEnd(s, p, w) == IF StartsAt(s, p, w) THEN p + 2 ELSE 0

\* \?[^?]
TernaryEnd(s, p) ==
    IF s[p] = "?" /\ p + 1 <= Len(s) /\ s[p + 1] # "?" THEN p + 2 ELSE 0

\* the first position at or after p where a match starts (0 if none)
NextMatch(ends, p) ==
    LET starts == {q \in p..Len(ends) : ends[q] > 0}
    IN  IF starts = {} THEN 0 ELSE Min(starts)

(* re.sub(pattern, repl, s) from position p, the pattern given by its      *)
(* match ends: the text up to the next match is kept, the match is         *)
(* replaced, and the scan goes on after the match.                         *)
RECURSIVE Sub(_, _, _, _)
Sub(s, ends, repl, p) ==
    LET q == NextMatch(ends, p)
    IN  IF q = 0 THEN SubSeq(s, p, Len(s))
        ELSE SubSeq(s, p, q - 1) \o repl \o Sub(s, ends, repl, ends[q])

\* len(re.findall(pattern, s)) from position p: leftmost, non-overlapping
RECURSIVE Count(_, _)
Count(ends, p) ==
    LET q == NextMatch(ends, p)
    IN  IF q = 0 THEN 0 ELSE 1 + Count(ends, ends[q])

\* line 139
StripStrings(s) ==
    Sub(s, [p \in 1..Len(s) |-> LiteralEnd(s, p, "\"")], <<"\"", "\"">>, 1)

\* line 140
StripChars(s) ==
    Sub(s, [p \in 1..Len(s) |-> LiteralEnd(s, p, "'")], <<"'", "'">>, 1)

\* line 143
StripLineComments(s) ==
    Sub(s, [p \in 1..Len(s) |-> LineCommentEnd(s, p)], <<>>, 1)

\* line 146
StripBlockComments(s) ==
    Sub(s, [p \in 1..Len(s) |-> BlockCommentEnd(s, p)], <<>>, 1)

\* lines 139-146, in the order of the source
Normalize(body) ==
    StripBlockComments(StripLineComments(StripChars(StripStrings(body))))

\* the names of decision_patterns, 'catch' once per pattern
PatternNames ==
    <<"if", "else if", "for", "foreach", "while", "do", "case", "catch(",
      "catch{", "&&", "||", "?:", "??">>

\* the match ends of the pattern of that name at position p of s
PatternEnd(name, s, p) ==
    CASE name = "if"      -> KeywordThen(s, p, KwIf, "(")
      [] name = "else if" -> ElseIfEnd(s, p)
      [] name = "for"     -> KeywordThen(s, p, KwFor, "(")
      [] name = "foreach" -> KeywordThen(s, p, KwForeach, "(")
      [] name = "while"   -> KeywordThen(s, p, KwWhile, "(")
      [] name = "do"      -> KeywordThen(s, p, KwDo, "{")
      [] name = "case"    -> CaseEnd(s, p)
      [] name = "catch("  -> KeywordThen(s, p, KwCatch, "(")
      [] name = "catch{"  -> KeywordThen(s, p, KwCatch, "{")
      [] name = "&&"      -> PairEnd(s, p, <<"&", "&">>)
      [] name = "||"      -> PairEnd(s, p, <<"|", "|">>)
      [] name = "?:"      -> TernaryEnd(s, p)
      [] name = "??"      -> PairEnd(s, p, <<"?", "?">>)

\* len(re.findall(pattern, s)) for the pattern of that name
Matches(name, s) == Count([p \in 1..Len(s) |-> PatternEnd(name, s, p)], 1)

\* the loop of lines 165-167: the sum of the matches of patterns k..13
RECURSIVE Tally(_, _)
Tally(s, k) ==
    IF k > Len(PatternNames) THEN 0
    ELSE Matches(PatternNames[k], s) + Tally(s, k + 1)

\* variant of ElseIfCount: nothing is subtracted
ElseIfCountNone(s) == 0

\* else_if_count (line 170)
ElseIfCount(s) == Matches("else if", s)

\* variant of RawComplexity: the count starts one too high
RawComplexityFromTwo(s) == 2 + Tally(s, 1) - ElseIfCount(s)

\* complexity before line 173, from the normalized body
RawComplexity(s) == 1 + Tally(s, 1) - ElseIfCount(s)

\* max(1, complexity) (line 173)
Floor(c) == IF c > 1 THEN c ELSE 1

calculate_mccabe_complexity(body) == Floor(RawComplexity(Normalize(body)))

-----------------------------------------------------------------------------
(* Inputs of extract_methods: every text of 1..MaxLines lines, each line   *)
(* one of the shapes below (content.split('\n') never returns an empty     *)
(* list, and no line holds a '\n').                                        *)

\* '// class A'
LineComment ==
    <<"/", "/", " ", "c", "l", "a", "s", "s", " ", "A">>

\* 'class A {} void Q() {'
LineClassA ==
    <<"c", "l", "a", "s", "s", " ", "A", " ", "{", "}", " ", "v", "o", "i", "d", " ", "Q", "(", ")", " ", "{">>

\* 'struct B'
LineStructB ==
    <<"s", "t", "r", "u", "c", "t", " ", "B">>

\* 'public record P(int x)'
LineRecordP ==
    <<"p", "u", "b", "l", "i", "c", " ", "r", "e", "c", "o", "r", "d", " ", "P", "(", "i", "n", "t", " ", "x", ")">>

\* ' void M() {'
LineSigOpen ==
    <<" ", "v", "o", "i", "d", " ", "M", "(", ")", " ", "{">>

\* ' void N()'
LineSig ==
    <<" ", "v", "o", "i", "d", " ", "N", "(", ")">>

\* ' int get() {'
LineGet ==
    <<" ", "i", "n", "t", " ", "g", "e", "t", "(", ")", " ", "{">>

\* '{'
LineOpen ==
    <<"{">>

\* '}'
LineClose ==
    <<"}">>

LineSet ==
    {LineComment, LineClassA, LineStructB, LineRecordP, LineSigOpen, LineSig,
     LineGet, LineOpen, LineClose}

Inputs == UNION {[1..n -> LineSet] : n \in 1..MaxLines}

-----------------------------------------------------------------------------
(* extract_methods.                                                        *)

\* what lines 59-82 compute from one line, tabulated for the line shapes
LineTests ==
    [line \in LineSet |->
        [skipped   |-> IsSkipped(line),
         class     |-> IF class_match(line) THEN class_group1(line) ELSE <<>>,
         signature |-> IsSignature(line),
         name      |-> IF method_match(line) THEN method_group2(line) ELSE <<>>]]

\* lines[i]
Line == lines[i + 1]

\* variant of ClassAfter: only the first declaration is kept
ClassAfterFirstOnly(line, cc) ==
    IF LineTests[line].class # <<>> /\ cc = Unknown
    THEN LineTests[line].class
    ELSE cc

\* lines 67-72: both branches assign class_match.group(1)
ClassAfter(line, cc) ==
    IF LineTests[line].class # <<>> THEN LineTests[line].class ELSE cc

\* variant of IsAccessorName: 'get' missing from the list
IsAccessorNameWithoutGet(name) == name \in Accessors \ {<<"g", "e", "t">>}

\* method_name in ['get', 'set', 'add', 'remove', 'value'] (line 82)
IsAccessorName(name) == name \in Accessors

\* variant of NextLine: the increment is missing
NextLineStuck(ii) == ii

\* i += 1 of the paths that consume one line (lines 63, 83, 115)
NextLine(ii) == ii + 1

\* the for loop of lines 96-101 over one line, from depth bc
RECURSIVE CountBraces(_, _)
CountBraces(cl, bc) ==
    IF cl = <<>> THEN bc
    ELSE CountBraces(Tail(cl),
                     IF Head(cl) = "{" THEN bc + 1
                     ELSE IF Head(cl) = "}" THEN bc - 1
                     ELSE bc)

\* found_opening_brace after the for loop over one line
FoundAfter(cl, fo) == fo \/ \E p \in 1..Len(cl) : cl[p] = "{"

\* variant of ScanGuard: the last line is never scanned
ScanGuardShort(jj, n) == jj < n - 1

\* the condition of the inner while (line 93)
ScanGuard(jj, n) == jj < n

\* variant of BreakNow: found_opening_brace is not tested
BreakNowIgnoringOpen(fo, bc) == bc = 0

\* the condition of the break (line 105)
BreakNow(fo, bc) == fo /\ bc = 0

\* variant of ResumeAt: i = j is missing
ResumeAtNextLine(ii, jj) == ii + 1

\* i = j (line 113) followed by i += 1 (line 115)
ResumeAt(ii, jj) == jj + 1

\* the tuple appended at line 112
Record(cc, name, body_lines, sl) ==
    [class_name |-> cc, method_name |-> name,
     method_body |-> Join(body_lines), start_line |-> sl]

Init ==
    /\ lines \in Inputs
    /\ i = 0
    /\ j = 0
    /\ pc = "outer"
    /\ current_class = Unknown
    /\ methods = <<>>
    /\ method_name = <<>>
    /\ start_line = 0
    /\ brace_count = 0
    /\ found_opening_brace = FALSE
    /\ method_body_lines = <<>>
    /\ method_body = <<>>
    /\ complexity = 0

\* lines 61-64: a blank or comment line
SkipLine ==
    /\ pc = "outer"
    /\ i < Len(lines)
    /\ LineTests[Line].skipped
    /\ i' = NextLine(i)
    /\ UNCHANGED <<lines, j, pc, current_class, methods, method_name,
                   start_line, brace_count, found_opening_brace,
                   method_body_lines, method_body, complexity>>

\* lines 66-78, 115: a line that is no signature
NoSignature ==
    /\ pc = "outer"
    /\ i < Len(lines)
    /\ ~LineTests[Line].skipped
    /\ ~LineTests[Line].signature
    /\ current_class' = ClassAfter(Line, current_class)
    /\ i' = NextLine(i)
    /\ UNCHANGED <<lines, j, pc, methods, method_name, start_line,
                   brace_count, found_opening_brace, method_body_lines,
                   method_body, complexity>>

\* lines 66-84: a signature whose name is an accessor keyword
RejectAccessor ==
    /\ pc = "outer"
    /\ i < Len(lines)
    /\ ~LineTests[Line].skipped
    /\ LineTests[Line].signature
    /\ IsAccessorName(LineTests[Line].name)
    /\ current_class' = ClassAfter(Line, current_class)
    /\ i' = NextLine(i)
    /\ UNCHANGED <<lines, j, pc, methods, method_name, start_line,
                   brace_count, found_opening_brace, method_body_lines,
                   method_body, complexity>>

\* lines 66-92: a signature whose body is to be captured
BeginCapture ==
    /\ pc = "outer"
    /\ i < Len(lines)
    /\ ~LineTests[Line].skipped
    /\ LineTests[Line].signature
    /\ ~IsAccessorName(LineTests[Line].name)
    /\ current_class' = ClassAfter(Line, current_class)
    /\ method_name' = LineTests[Line].name
    /\ start_line' = i + 1
    /\ brace_count' = 0
    /\ method_body_lines' = <<>>
    /\ found_opening_brace' = FALSE
    /\ j' = i
    /\ pc' = "inner"
    /\ UNCHANGED <<lines, i, methods, method_body, complexity>>

\* lines 93-108: one iteration of the inner while
ScanLine ==
    /\ pc = "inner"
    /\ ScanGuard(j, Len(lines))
    /\ LET current_line == lines[j + 1]
           bc == CountBraces(current_line, brace_count)
           fo == FoundAfter(current_line, found_opening_brace)
       IN  /\ brace_count' = bc
           /\ found_opening_brace' = fo
           /\ method_body_lines' = Append(method_body_lines, current_line)
           /\ IF BreakNow(fo, bc)
              THEN j' = j /\ pc' = "emit"
              ELSE j' = j + 1 /\ pc' = "inner"
    /\ UNCHANGED <<lines, i, current_class, methods, method_name, start_line,
                   method_body, complexity>>

\* line 93: the inner while ends because j reached the end of the input
EndOfInput ==
    /\ pc = "inner"
    /\ ~ScanGuard(j, Len(lines))
    /\ pc' = "emit"
    /\ UNCHANGED <<lines, i, j, current_class, methods, method_name,
                   start_line, brace_count, found_opening_brace,
                   method_body_lines, method_body, complexity>>

\* lines 110-115: append the record and move the cursor past the capture
EmitMethod ==
    /\ pc = "emit"
    /\ IF method_body_lines # <<>>
       THEN /\ methods' = Append(methods,
                                 Record(current_class, method_name,
                                        method_body_lines, start_line))
            /\ i' = ResumeAt(i, j)
       ELSE /\ methods' = methods
            /\ i' = NextLine(i)
    /\ pc' = "outer"
    /\ UNCHANGED <<lines, j, current_class, method_name, start_line,
                   brace_count, found_opening_brace, method_body_lines,
                   method_body, complexity>>

\* lines 57, 117: the outer while ends and methods is returned
Return ==
    /\ pc = "outer"
    /\ ~(i < Len(lines))
    /\ pc' = "done"
    /\ UNCHANGED <<lines, i, j, current_class, methods, method_name,
                   start_line, brace_count, found_opening_brace,
                   method_body_lines, method_body, complexity>>

Next ==
    \/ SkipLine
    \/ NoSignature
    \/ RejectAccessor
    \/ BeginCapture
    \/ ScanLine
    \/ EndOfInput
    \/ EmitMethod
    \/ Return

Spec == Init /\ [][Next]_vars

\* the outer and inner loops are sequential code: every enabled step is taken
FairSpec == Spec /\ WF_vars(Next)

-----------------------------------------------------------------------------
(* calculate_mccabe_complexity as a function of its argument: the bodies   *)
(* are the concatenations of at most MaxFrags of the fragments below.      *)

\* 'if (a) { }'
FragIf ==
    <<"i", "f", " ", "(", "a", ")", " ", "{", " ", "}">>

\* ' else if (b) { }'
FragElseIf ==
    <<" ", "e", "l", "s", "e", " ", "i", "f", " ", "(", "b", ")", " ", "{", " ", "}">>

\* ' a && b || c;'
FragAndOr ==
    <<" ", "a", " ", "&", "&", " ", "b", " ", "|", "|", " ", "c", ";">>

\* ' x ? y : z;'
FragTernary ==
    <<" ", "x", " ", "?", " ", "y", " ", ":", " ", "z", ";">>

\* ' a ?? b;'
FragCoalesce ==
    <<" ", "a", " ", "?", "?", " ", "b", ";">>

\* ' s = "a && b\" ? ";'
FragString ==
    <<" ", "s", " ", "=", " ", "\"", "a", " ", "&", "&", " ", "b", "\\", "\"", " ", "?", " ", "\"", ";">>

\* " c = '?';"
FragChar ==
    <<" ", "c", " ", "=", " ", "'", "?", "'", ";">>

\* ' // if (x)' and a line break
FragLineComment ==
    <<" ", "/", "/", " ", "i", "f", " ", "(", "x", ")", "\n">>

\* ' /* while (x) */'
FragBlockComment ==
    <<" ", "/", "*", " ", "w", "h", "i", "l", "e", " ", "(", "x", ")", " ", "*", "/">>

\* ' for (;;) { } foreach (v in w) { } while (u) { } do { }'
FragLoops ==
    <<" ", "f", "o", "r", " ", "(", ";", ";", ")", " ", "{", " ", "}", " ", "f", "o", "r", "e", "a", "c", "h", " ", "(", "v", " ", "i", "n", " ", "w", ")", " ", "{", " ", "}", " ", "w", "h", "i", "l", "e", " ", "(", "u", ")", " ", "{", " ", "}", " ", "d", "o", " ", "{", " ", "}">>

\* ' case 1: break;'
FragSwitch ==
    <<" ", "c", "a", "s", "e", " ", "1", ":", " ", "b", "r", "e", "a", "k", ";">>

\* ' catch (E e) { } catch { }'
FragCatch ==
    <<" ", "c", "a", "t", "c", "h", " ", "(", "E", " ", "e", ")", " ", "{", " ", "}", " ", "c", "a", "t", "c", "h", " ", "{", " ", "}">>

\* '{ }'
FragPlain ==
    <<"{", " ", "}">>

FragSet ==
    {FragIf, FragElseIf, FragAndOr, FragTernary, FragCoalesce, FragString,
     FragChar, FragLineComment, FragBlockComment, FragLoops, FragSwitch,
     FragCatch, FragPlain}

RECURSIVE Concat(_)
Concat(fs) == IF fs = <<>> THEN <<>> ELSE Head(fs) \o Concat(Tail(fs))

Bodies == {Concat(fs) : fs \in UNION {[1..n -> FragSet] : n \in 0..MaxFrags}}

ScoreInit ==
    /\ method_body \in Bodies
    /\ complexity = 0
    /\ pc = "score"
    /\ lines = <<>>
    /\ i = 0
    /\ j = 0
    /\ current_class = Unknown
    /\ methods = <<>>
    /\ method_name = <<>>
    /\ start_line = 0
    /\ brace_count = 0
    /\ found_opening_brace = FALSE
    /\ method_body_lines = <<>>

\* lines 119-173: one call of calculate_mccabe_complexity
Score ==
    /\ pc = "score"
    /\ complexity' = calculate_mccabe_complexity(method_body)
    /\ pc' = "scored"
    /\ UNCHANGED <<lines, i, j, current_class, methods, method_name,
                   start_line, brace_count, found_opening_brace,
                   method_body_lines, method_body>>

ScoreSpec == ScoreInit /\ [][Score]_vars

-----------------------------------------------------------------------------
(* What the properties below speak of, read off the input text and the     *)
(* returned records alone.                                                 *)

\* the names a record must never carry
ReservedNames ==
    { <<"g", "e", "t">>, <<"s", "e", "t">>, <<"a", "d", "d">>,
      <<"r", "e", "m", "o", "v", "e">>, <<"v", "a", "l", "u", "e">> }

\* the number of lines of a record's body
BodyLines(r) ==
    Cardinality({p \in 1..Len(r.method_body) : r.method_body[p] = "\n"}) + 1

\* the (1-based) number of the last line of a record's body
LastLine(r) == r.start_line + BodyLines(r) - 1

\* how often character c occurs in lines s..e of the input
RECURSIVE Occurs(_, _, _)
Occurs(c, s, e) ==
    IF e < s THEN 0
    ELSE Occurs(c, s, e - 1)
         + Cardinality({p \in 1..Len(lines[e]) : lines[e][p] = c})

\* at the end of line e, a '{' has been seen since line s and the depth is zero
Balanced(s, e) ==
    /\ Occurs("{", s, e) > 0
    /\ Occurs("{", s, e) = Occurs("}", s, e)

\* the first line from s at whose end the depth is back at zero (0 if none)
ClosingLine(s) ==
    LET ends == {e \in s..Len(lines) : Balanced(s, e)}
    IN  IF ends = {} THEN 0 ELSE Min(ends)

\* line m is a type declaration: not blank, not a comment, a class/struct/record
IsTypeDeclaration(m) ==
    /\ ~LineTests[lines[m]].skipped
    /\ LineTests[lines[m]].class # <<>>

\* line m lies inside the body of one of the records before the k-th
InsideEarlierBody(m, k) ==
    \E h \in 1..(k - 1) :
        methods[h].start_line < m /\ m <= LastLine(methods[h])

\* the identifier of the last of the declaration lines D ("Unknown" if none)
NearestType(D) ==
    IF D = {} THEN Unknown ELSE LineTests[lines[Max(D)]].class

\* line m is a signature with a name that is not reserved
IsMethodLine(m) ==
    /\ ~LineTests[lines[m]].skipped
    /\ LineTests[lines[m]].signature
    /\ LineTests[lines[m]].name \notin ReservedNames

-----------------------------------------------------------------------------
(* C1.  A signature with no '{' on its line or on any later line yields no *)
(* record: every record's span holds an opening brace.                     *)
C1_NoRecordWithoutBrace ==
    \A k \in 1..Len(methods) :
        Occurs("{", methods[k].start_line, Len(lines)) > 0

(* C2 as stated.  The body `if (a) { } else if (b) { }` scores 2.          *)
C2_ScenarioScoresTwo ==
    (pc = "scored" /\ method_body = FragIf \o FragElseIf) => complexity = 2

(* C2 as amended.  The body `if (a) { } else if (b) { }` scores 3: base 1, *)
(* plus 2 for the two matches of the if pattern (the plain one and the one *)
(* inside `else if (`), plus 1 for the else-if match, minus 1 for the      *)
(* else-if correction.                                                     *)
C2_ScenarioScoresThree ==
    (pc = "scored" /\ method_body = FragIf \o FragElseIf) =>
        /\ Matches("if", Normalize(method_body)) = 2
        /\ Matches("else if", Normalize(method_body)) = 1
        /\ Tally(Normalize(method_body), 1) = 3
        /\ complexity = 1 + 2 + 1 - 1

C2_Witness == pc = "scored" /\ method_body = FragIf \o FragElseIf

(* C3.  No record carries a reserved name, no capture is ever under way    *)
(* for one, and no record starts on a line whose signature name is         *)
(* reserved.                                                               *)
C3_NoAccessorRecord ==
    /\ \A k \in 1..Len(methods) :
          /\ methods[k].method_name \notin ReservedNames
          /\ LineTests[lines[methods[k].start_line]].name \notin ReservedNames
    /\ pc \in {"inner", "emit"} => method_name \notin ReservedNames

\* an accessor signature on line 1 was passed over and line 2 was captured
C3_Witness ==
    /\ pc = "done"
    /\ Len(lines) >= 2
    /\ LineTests[lines[1]].signature
    /\ LineTests[lines[1]].name \in ReservedNames
    /\ Len(methods) = 1
    /\ methods[1].start_line = 2

(* C4.  A record whose span sees an opening brace but never gets back to   *)
(* depth zero has as body every line from its signature line to the last   *)
(* line of the input, and is the last record.                              *)
C4_UnbalancedAbsorbsRest ==
    \A k \in 1..Len(methods) :
        LET s == methods[k].start_line
        IN  (Occurs("{", s, Len(lines)) > 0 /\ ClosingLine(s) = 0) =>
                /\ methods[k].method_body = Join(SubSeq(lines, s, Len(lines)))
                /\ k = Len(methods)

\* the function has returned after such a capture that swallowed a signature
C4_Witness ==
    /\ pc = "done"
    /\ \E k \in 1..Len(methods) :
          LET s == methods[k].start_line
          IN  /\ Occurs("{", s, Len(lines)) > 0
              /\ ClosingLine(s) = 0
              /\ \E m \in (s + 1)..Len(lines) : IsMethodLine(m)

(* C5 as stated.  A record's enclosing type is the identifier of the       *)
(* nearest type declaration before its signature line, "Unknown" if none.  *)
(* It is stated for the records that C1 and C8 leave undisputed (the span  *)
(* holds an opening brace, the signature line is no type declaration), so  *)
(* that what refutes it is the scan itself and neither of those defects.   *)
C5_NearestPrecedingType ==
    \A k \in 1..Len(methods) :
        (/\ Occurs("{", methods[k].start_line, Len(lines)) > 0
         /\ ~IsTypeDeclaration(methods[k].start_line)) =>
            methods[k].class_name =
                NearestType({m \in 1..(methods[k].start_line - 1) :
                                IsTypeDeclaration(m)})

(* C5 as amended.  A record's enclosing type is the identifier of the      *)
(* nearest type declaration at or before its signature line that is not    *)
(* inside the body of an earlier record, "Unknown" if there is none.       *)
C5_NearestScannedType ==
    \A k \in 1..Len(methods) :
        methods[k].class_name =
            NearestType({m \in 1..methods[k].start_line :
                            IsTypeDeclaration(m) /\ ~InsideEarlierBody(m, k)})

\* A is declared, then B, then a method: the method's record carries B
C5_Witness ==
    /\ pc = "done"
    /\ \E k \in 1..Len(methods) :
          /\ methods[k].class_name = <<"B">>
          /\ \E a, b \in 1..(methods[k].start_line - 1) :
                /\ a < b
                /\ IsTypeDeclaration(a)
                /\ LineTests[lines[a]].class = <<"A">>
                /\ IsTypeDeclaration(b)
                /\ LineTests[lines[b]].class = <<"B">>

(* C6 as stated.  Every record's body is the lines from its signature line *)
(* through the line on which the depth returns to zero after an opening    *)
(* brace.  It is stated for the records that C1 leaves undisputed (the     *)
(* span holds an opening brace), so that what refutes it is not that       *)
(* defect.                                                                 *)
C6_BodyEndsAtClosingLine ==
    \A k \in 1..Len(methods) :
        LET s == methods[k].start_line
        IN  Occurs("{", s, Len(lines)) > 0 =>
                /\ ClosingLine(s) # 0
                /\ methods[k].method_body =
                       Join(SubSeq(lines, s, ClosingLine(s)))

(* C6 as amended.  Every record's body is the lines from its signature     *)
(* line through the first line at whose end the depth is zero after an     *)
(* opening brace, or through the last line of the input when there is no   *)
(* such line; where the first opening brace stands makes no difference.    *)
C6_BodyIsSpan ==
    \A k \in 1..Len(methods) :
        LET s == methods[k].start_line
            e == IF ClosingLine(s) # 0 THEN ClosingLine(s) ELSE Len(lines)
        IN  methods[k].method_body = Join(SubSeq(lines, s, e))

\* a body whose first opening brace is on a line after the signature line
C6_Witness ==
    /\ pc = "done"
    /\ \E k \in 1..Len(methods) :
          LET s == methods[k].start_line
          IN  /\ Occurs("{", s, s) = 0
              /\ ClosingLine(s) > s
              /\ ClosingLine(s) < Len(lines)
              /\ methods[k].method_body = Join(SubSeq(lines, s, ClosingLine(s)))

(* C7.  The score is an integer of at least 1, and it is exactly 1 when no *)
(* decision pattern matches the normalized body.                           *)
C7_AtLeastOne ==
    pc = "scored" =>
        /\ complexity \in Int
        /\ complexity >= 1
        /\ (\A k \in 1..Len(PatternNames) :
                Matches(PatternNames[k], Normalize(method_body)) = 0)
              => complexity = 1

\* a body with operators only inside a literal or a comment scores 1
C7_Witness ==
    /\ pc = "scored"
    /\ complexity = 1
    /\ Normalize(method_body) # method_body
    /\ \A k \in 1..Len(PatternNames) :
          Matches(PatternNames[k], Normalize(method_body)) = 0

(* C8.  No record starts on a line on which a type declaration is          *)
(* detected.                                                               *)
C8_TypeLineIsNoMethod ==
    \A k \in 1..Len(methods) : ~IsTypeDeclaration(methods[k].start_line)

(* C9.  Records do not overlap and come in line order: each starts after   *)
(* the last line of the one before; the outer cursor is past the last      *)
(* captured body, and a capture under way started past it.                 *)
C9_SpansInOrder ==
    /\ \A k \in 1..(Len(methods) - 1) :
          methods[k + 1].start_line > LastLine(methods[k])
    /\ (pc \in {"outer", "done"} /\ methods # <<>>) =>
          i >= LastLine(methods[Len(methods)])
    /\ (pc \in {"inner", "emit"} /\ methods # <<>>) =>
          start_line > LastLine(methods[Len(methods)])

\* a second body was captured on the very line after the first one's end
C9_Witness ==
    /\ pc = "done"
    /\ Len(methods) = 2
    /\ BodyLines(methods[1]) >= 2
    /\ methods[2].start_line = LastLine(methods[1]) + 1

(* C10.  extract_methods terminates: every pass of the outer loop ends     *)
(* with a larger i, every pass of the inner loop that stays in the loop    *)
(* ends with a larger j, j starts at i and never passes the number of      *)
(* lines, and the function returns.                                        *)
C10_Progress ==
    /\ (pc \in {"outer", "emit"} /\ pc' = "outer") => i' > i
    /\ (pc = "outer" /\ pc' = "inner") => (j' = i /\ i' = i)
    /\ (pc = "inner" /\ pc' = "inner") => (j' = j + 1 /\ j' <= Len(lines))
    /\ (pc = "inner" /\ pc' = "emit") => j' = j
    /\ pc = "done" => pc' = "done"

C10_Terminates == [][C10_Progress]_vars /\ <>(pc = "done")

\* a run that took the skip, accessor, no-match and capture paths has returned
C10_Witness ==
    /\ pc = "done"
    /\ methods # <<>>
    /\ \E a, b, c \in 1..Len(lines) :
          /\ LineTests[lines[a]].skipped
          /\ ~LineTests[lines[b]].skipped
          /\ ~LineTests[lines[b]].signature
          /\ LineTests[lines[c]].signature
          /\ LineTests[lines[c]].name \in ReservedNames
          /\ \A k \in 1..Len(methods) :
                {a, b, c} \cap (methods[k].start_line..LastLine(methods[k])) = {}

====
